---- MODULE Spec2Model ----
(***************************************************************************)
(* Model of gemini.py: a linear script that loads a .env file into the     *)
(* process environment, reports whether GEMINI_API_KEY is set, constructs  *)
(* a google-genai client with it, issues one generate_content request and  *)
(* prints the text of the response.                                        *)
(*                                                                         *)
(* Python's Optional[str] is modelled as a sequence of length 0 (None) or  *)
(* 1 (the string).  The two vendor calls the script makes are modelled by  *)
(* the contract of the call as the script writes it: load_dotenv() with    *)
(* its defaults (override=False, interpolate=True) and                     *)
(* genai.Client(api_key=...).  The remote service is an opaque outcome.    *)
(***************************************************************************)
EXTENDS Integers, Sequences, FiniteSets, TLC

VARIABLES pc, env, dotenvFile, stdout, ctorCalls, client, requests,
          response, exitStatus, error

vars == <<pc, env, dotenvFile, stdout, ctorCalls, client, requests,
          response, exitStatus, error>>

----------------------------------------------------------------------------
(* Bounds *)

MaxFileLines == 2
NumValues == 1

----------------------------------------------------------------------------
(* Python values *)

None == <<>>
Some(v) == <<v>>
Val(o) == o[1]

\* truthiness of an Optional[str]: None and "" are falsy
Truthy(o) == o # None /\ Val(o) # ""

\* a or b
PyOr(a, b) == IF Truthy(a) THEN a ELSE b

PyStrBool(b) == IF b THEN "True" ELSE "False"

\* str() of an Optional[str], as print() renders it
PyStr(o) == IF o = None THEN "None" ELSE Val(o)

----------------------------------------------------------------------------
(* The environment and the .env file *)

KEY == "GEMINI_API_KEY"
VendorKey == "GOOGLE_API_KEY"
Keys == {KEY, VendorKey, "OTHER_VAR"}

Values == {""} \cup {"v" \o ToString(i) : i \in 1..NumValues}
OptValues == {None} \cup {Some(v) : v \in Values}

\* os.environ: every key is unset (None) or holds a string
Environments == [Keys -> OptValues]

\* os.getenv(k)
getenv(e, k) == e[k]

\* the right-hand side of a line of the file: no "=" at all (value None),
\* a literal string, or a reference ${NAME} to another variable
Atoms == {[kind |-> "none", arg |-> ""]}
           \cup {[kind |-> "lit", arg |-> v] : v \in Values}
           \cup {[kind |-> "ref", arg |-> k] : k \in Keys}
Bindings == [key : Keys, value : Atoms]

SeqsUpTo(S, n) == UNION {[1..m -> S] : m \in 0..n}

\* the file system: no .env file found, or a file with its lines
Files == {[exists |-> FALSE, lines |-> <<>>]}
           \cup {[exists |-> TRUE, lines |-> l] : l \in SeqsUpTo(Bindings, MaxFileLines)}

----------------------------------------------------------------------------
(* load_dotenv *)

\* variant: load_dotenv(override=True)
overrideTrue == TRUE

\* the script calls load_dotenv() with no arguments: override is False
override == FALSE

\* the mapping a variable reference is resolved in
ResolveRef(k, newValues, environ, ov) ==
    LET fromNew == IF k \in DOMAIN newValues THEN newValues[k] ELSE None
        result ==
            IF ov
            THEN IF k \in DOMAIN newValues THEN fromNew ELSE environ[k]
            ELSE IF environ[k] # None THEN environ[k] ELSE fromNew
    IN  IF result # None THEN Val(result) ELSE ""

ResolveAtom(a, newValues, environ, ov) ==
    CASE a.kind = "none" -> None
      [] a.kind = "lit"  -> Some(a.arg)
      [] a.kind = "ref"  -> Some(ResolveRef(a.arg, newValues, environ, ov))

\* the values of the file, in order, a later line replacing an earlier one
RECURSIVE ResolveVariables(_, _, _, _)
ResolveVariables(lines, newValues, environ, ov) ==
    IF lines = <<>> THEN newValues
    ELSE LET b == Head(lines)
             r == ResolveAtom(b.value, newValues, environ, ov)
             nv == [k \in DOMAIN newValues \cup {b.key} |->
                       IF k = b.key THEN r ELSE newValues[k]]
         IN  ResolveVariables(Tail(lines), nv, environ, ov)

EmptyMap == [k \in {} |-> None]

\* set every key of the file that has a value, skipping (unless override)
\* the keys the environment already holds
SetAsEnvironmentVariables(values, environ, ov) ==
    [k \in Keys |->
        IF k \in DOMAIN values /\ values[k] # None
           /\ (ov \/ environ[k] = None)
        THEN values[k]
        ELSE environ[k]]

\* a file that is not found is read as an empty stream
load_dotenv(environ, file) ==
    LET lines == IF file.exists THEN file.lines ELSE <<>>
    IN  SetAsEnvironmentVariables(
            ResolveVariables(lines, EmptyMap, environ, override),
            environ, override)

----------------------------------------------------------------------------
(* Script *)

\* variant: the model identifier read from the environment, with a default
modelFromEnv ==
    IF Truthy(env["OTHER_VAR"]) THEN Val(env["OTHER_VAR"]) ELSE "gemini-2.0-flash"

model == "gemini-2.0-flash"
contents == "Say hello world in a creative way"

\* what the remote service may answer with: a response whose text is a
\* string, or None when the response carries no text part
Texts == OptValues \cup {Some("Hello, world!")}
ServiceErrors == {"ClientError", "ServerError", "ConnectError"}

Init ==
    /\ pc = "load"
    /\ env \in Environments
    /\ dotenvFile \in Files
    /\ stdout = <<>>
    /\ ctorCalls = <<>>
    /\ client = None
    /\ requests = <<>>
    /\ response = None
    /\ exitStatus = None
    /\ error = None

\* an exception nothing catches ends the process with status 1
Raise(e) ==
    /\ pc' = "crashed"
    /\ exitStatus' = Some(1)
    /\ error' = Some(e)

\* variant: load_dotenv(find_dotenv(raise_error_if_not_found=True))
LoadConfigStrict ==
    /\ pc = "load"
    /\ IF dotenvFile.exists
       THEN /\ env' = load_dotenv(env, dotenvFile)
            /\ pc' = "check"
            /\ UNCHANGED <<exitStatus, error>>
       ELSE /\ Raise("IOError")
            /\ UNCHANGED env
    /\ UNCHANGED <<dotenvFile, stdout, ctorCalls, client, requests, response>>

\* load_dotenv()
LoadConfig ==
    /\ pc = "load"
    /\ env' = load_dotenv(env, dotenvFile)
    /\ pc' = "check"
    /\ UNCHANGED <<dotenvFile, stdout, ctorCalls, client, requests,
                   response, exitStatus, error>>

\* variant: bool(os.getenv("GEMINI_API_KEY"))
KeyLoadedTruthy(e) == Truthy(getenv(e, KEY))

\* os.getenv("GEMINI_API_KEY") is not None
KeyLoaded(e) == getenv(e, KEY) # None

\* print("API Key loaded:", b)
DiagLine(b) == "API Key loaded:" \o " " \o PyStrBool(b)

\* variant: the check as a guard that stops the run when the key is unset
CheckCredentialGated ==
    /\ pc = "check"
    /\ stdout' = Append(stdout, DiagLine(KeyLoaded(env)))
    /\ IF KeyLoaded(env)
       THEN pc' = "construct" /\ UNCHANGED <<exitStatus, error>>
       ELSE Raise("SystemExit")
    /\ UNCHANGED <<env, dotenvFile, ctorCalls, client, requests, response>>

\* variant: the check also gives the variable a default,
\* os.environ.setdefault("GEMINI_API_KEY", "")
CheckCredentialSetDefault ==
    /\ pc = "check"
    /\ stdout' = Append(stdout, DiagLine(KeyLoaded(env)))
    /\ env' = [env EXCEPT ![KEY] = IF @ = None THEN Some("") ELSE @]
    /\ pc' = "construct"
    /\ UNCHANGED <<dotenvFile, ctorCalls, client, requests, response,
                   exitStatus, error>>

CheckCredential ==
    /\ pc = "check"
    /\ stdout' = Append(stdout, DiagLine(KeyLoaded(env)))
    /\ pc' = "construct"
    /\ UNCHANGED <<env, dotenvFile, ctorCalls, client, requests, response,
                   exitStatus, error>>

\* genai.Client(api_key=os.getenv("GEMINI_API_KEY")): the key the client
\* uses is the argument or, when that is None or empty, GOOGLE_API_KEY of
\* the environment; with neither, construction raises ValueError
ConstructClient ==
    /\ pc = "construct"
    /\ LET api_key == getenv(env, KEY)
           used == PyOr(api_key, getenv(env, VendorKey))
       IN  /\ ctorCalls' = Append(ctorCalls, api_key)
           /\ IF Truthy(used)
              THEN /\ client' = Some([api_key |-> api_key, used |-> Val(used)])
                   /\ pc' = "generate"
                   /\ UNCHANGED <<exitStatus, error>>
              ELSE /\ Raise("ValueError")
                   /\ UNCHANGED client
    /\ UNCHANGED <<env, dotenvFile, stdout, requests, response>>

\* variant: the call wrapped in try/except that prints the error and goes on
GenerateContentCaught ==
    /\ pc = "generate"
    /\ requests' = Append(requests,
           [model |-> model, contents |-> contents, api_key |-> Val(client).used])
    /\ \/ \E t \in Texts :
             /\ response' = Some([text |-> t])
             /\ pc' = "print"
             /\ UNCHANGED <<stdout, exitStatus, error>>
       \/ \E e \in ServiceErrors :
             /\ stdout' = Append(stdout, e)
             /\ pc' = "done"
             /\ exitStatus' = Some(0)
             /\ UNCHANGED <<response, error>>
    /\ UNCHANGED <<env, dotenvFile, ctorCalls, client>>

\* variant: the call in a loop that tries again after a failure
GenerateContentRetry ==
    /\ pc = "generate"
    /\ requests' = Append(requests,
           [model |-> model, contents |-> contents, api_key |-> Val(client).used])
    /\ \/ \E t \in Texts :
             /\ response' = Some([text |-> t])
             /\ pc' = "print"
             /\ UNCHANGED <<exitStatus, error>>
       \/ \E e \in ServiceErrors :
             /\ IF Len(requests) < 1
                THEN pc' = "generate" /\ UNCHANGED <<exitStatus, error>>
                ELSE Raise(e)
             /\ UNCHANGED response
    /\ UNCHANGED <<env, dotenvFile, stdout, ctorCalls, client>>

\* response = client.models.generate_content(model=..., contents=...)
GenerateContent ==
    /\ pc = "generate"
    /\ requests' = Append(requests,
           [model |-> model, contents |-> contents, api_key |-> Val(client).used])
    /\ \/ \E t \in Texts :
             /\ response' = Some([text |-> t])
             /\ pc' = "print"
             /\ UNCHANGED <<exitStatus, error>>
       \/ \E e \in ServiceErrors :
             /\ Raise(e)
             /\ UNCHANGED response
    /\ UNCHANGED <<env, dotenvFile, stdout, ctorCalls, client>>

\* variant: print("Response:", response.text)
PrintResponseLabelled ==
    /\ pc = "print"
    /\ stdout' = Append(stdout, "Response:" \o " " \o PyStr(Val(response).text))
    /\ pc' = "done"
    /\ exitStatus' = Some(0)
    /\ UNCHANGED <<env, dotenvFile, ctorCalls, client, requests, response,
                   error>>

\* print(response.text), the last statement of the script
PrintResponse ==
    /\ pc = "print"
    /\ stdout' = Append(stdout, PyStr(Val(response).text))
    /\ pc' = "done"
    /\ exitStatus' = Some(0)
    /\ UNCHANGED <<env, dotenvFile, ctorCalls, client, requests, response,
                   error>>

Next ==
    \/ LoadConfig
    \/ CheckCredential
    \/ ConstructClient
    \/ GenerateContent
    \/ PrintResponse

Spec == Init /\ [][Next]_vars

TypeOK ==
    /\ pc \in {"load", "check", "construct", "generate", "print", "done", "crashed"}
    /\ env \in Environments
    /\ dotenvFile \in Files
    /\ Len(stdout) <= 2
    /\ ctorCalls \in SeqsUpTo(OptValues, 1)
    /\ Len(requests) <= 1
    /\ exitStatus \in {None, Some(0), Some(1)}

----------------------------------------------------------------------------
(* Properties *)

LineTrue == "API Key loaded: True"
LineFalse == "API Key loaded: False"

\* the line the diagnostic must show for an environment
Expected(e) == IF e[KEY] = None THEN LineFalse ELSE LineTrue

C2_DiagnosticReportsPresence ==
    [][ pc = "check" =>
          /\ env[KEY] = None => stdout' = <<LineFalse>>
          /\ env[KEY] # None => stdout' = <<LineTrue>>
      ]_vars

\* the variable holds the empty string and is reported present
C2_Witness ==
    /\ pc = "construct"
    /\ env[KEY] = Some("")
    /\ stdout = <<LineTrue>>

\* C3: a failed remote call is not handled: the step that fails ends the
\* process with status 1, prints nothing and leaves no response, standard
\* output holds the diagnostic line alone, and nothing runs afterwards.
C3_FailurePropagates ==
    [][ /\ pc # "crashed"
        /\ (pc = "generate" /\ response' = None) =>
             /\ pc' = "crashed"
             /\ exitStatus' = Some(1)
             /\ error' \in {Some(e) : e \in ServiceErrors}
             /\ stdout' = stdout
             /\ stdout' \in {<<LineTrue>>, <<LineFalse>>}
      ]_vars

\* the request was sent and rejected
C3_Witness ==
    /\ pc = "crashed"
    /\ Len(requests) = 1
    /\ error = Some("ClientError")
    /\ Len(stdout) = 1

\* C4: a run whose remote call succeeded ends with status 0 and exactly
\* two lines on standard output: the diagnostic, then the text of the
\* response as print renders it (the string itself; None as "None").
C4_SuccessOutput ==
    /\ pc = "print" => response # None
    /\ pc = "done" =>
         /\ exitStatus = Some(0)
         /\ error = None
         /\ Len(stdout) = 2
         /\ stdout[1] = Expected(env)
         /\ LET t == response[1].text
            IN  /\ t # None => stdout[2] = t[1]
                /\ t = None => stdout[2] = "None"

\* the service answered with a text and the run printed it
C4_Witness ==
    /\ pc = "done"
    /\ response = Some([text |-> Some("Hello, world!")])
    /\ stdout[2] = "Hello, world!"

\* C5: every request carries the two literals, whatever the environment,
\* the file and the credential hold.
C5_FixedRequest ==
    \A i \in 1..Len(requests) :
        /\ requests[i].model = "gemini-2.0-flash"
        /\ requests[i].contents = "Say hello world in a creative way"

\* a request was sent from an environment in which every variable is set
\* and the file sets more
C5_Witness ==
    /\ Len(requests) = 1
    /\ \A k \in Keys : Truthy(env[k])
    /\ dotenvFile.exists /\ Len(dotenvFile.lines) = MaxFileLines

Rank(p) ==
    CASE p = "load" -> 0
      [] p = "check" -> 1
      [] p = "construct" -> 2
      [] p = "generate" -> 3
      [] p = "print" -> 4
      [] p = "done" -> 5
      [] p = "crashed" -> 6

\* C6: every step of a run is the next of the five steps, or the end of
\* the run by an uncaught error: no step runs twice or out of order; the
\* request step sends exactly one request and no other step sends any, so
\* a run sends at most one.
C6_LinearOnce ==
    [][ /\ pc \notin {"done", "crashed"}
        /\ pc' = "crashed" \/ Rank(pc') = Rank(pc) + 1
        /\ pc' = "crashed" => pc \in {"construct", "generate"}
        /\ pc = "generate" => requests = <<>> /\ Len(requests') = 1
        /\ pc # "generate" => requests' = requests
        /\ Len(ctorCalls') <= 1
        /\ Len(stdout') <= 2
      ]_vars

\* the one request failed on the server side and the run ended there
C6_Witness ==
    /\ pc = "crashed"
    /\ error = Some("ServerError")
    /\ Len(requests) = 1
    /\ Len(ctorCalls) = 1

\* the lines of the file that bind k
LinesFor(k) == {i \in 1..Len(dotenvFile.lines) : dotenvFile.lines[i].key = k}
LastFor(k) == dotenvFile.lines[CHOOSE i \in LinesFor(k) : \A j \in LinesFor(k) : j <= i].value

\* C7: loading only adds keys.  A key the host set keeps its value, also
\* when the file gives it another one; a key the host left unset and the
\* file gives a value gets the file's (last) value: the literal, or the
\* string a ${NAME} reference resolves to; every other key stays unset.
C7_LoadOnlyAdds ==
    [][ pc = "load" =>
          \A k \in Keys :
            /\ env[k] # None => env'[k] = env[k]
            /\ (env[k] = None /\ LinesFor(k) = {}) => env'[k] = None
            /\ (env[k] = None /\ LinesFor(k) # {}) =>
                 /\ LastFor(k).kind = "lit" => env'[k] = Some(LastFor(k).arg)
                 /\ LastFor(k).kind = "ref" => env'[k] # None
                 /\ LastFor(k).kind = "none" => env'[k] = None
      ]_vars

\* after loading a file of two lines, one key still differs from the value
\* the file gives it (the host's value won) and one holds the file's value
C7_Witness ==
    /\ pc = "check"
    /\ Len(dotenvFile.lines) = 2
    /\ dotenvFile.lines[1] = [key |-> KEY, value |-> [kind |-> "lit", arg |-> "v1"]]
    /\ dotenvFile.lines[2] = [key |-> VendorKey, value |-> [kind |-> "lit", arg |-> "v1"]]
    /\ env[KEY] = Some("")
    /\ env[VendorKey] = Some("v1")

\* C8: loading is idempotent: loading the same file again into the
\* environment a load produced changes nothing.
C8_LoadIdempotent ==
    pc # "load" => load_dotenv(env, dotenvFile) = env

\* the file was loaded; its first line refers to a variable that its second
\* line sets, and that the host had set to something else
C8_Witness ==
    /\ pc = "check"
    /\ Len(dotenvFile.lines) = 2
    /\ dotenvFile.lines[1] = [key |-> KEY, value |-> [kind |-> "ref", arg |-> VendorKey]]
    /\ dotenvFile.lines[2] = [key |-> VendorKey, value |-> [kind |-> "lit", arg |-> "v1"]]
    /\ env[KEY] = Some("")
    /\ env[VendorKey] = Some("")

\* C9: with no configuration file, loading raises nothing and leaves the
\* environment as the host gave it, and the credential check runs next and
\* reports by that environment.
C9_MissingFileTolerated ==
    [][ ~dotenvFile.exists =>
          /\ pc = "load" =>
               /\ env' = env
               /\ pc' = "check"
               /\ exitStatus' = None /\ error' = None
          /\ pc = "check" =>
               /\ env' = env
               /\ pc' = "construct"
               /\ stdout' = <<Expected(env)>>
      ]_vars

\* no file, and the check has reported the host's key
C9_Witness ==
    /\ ~dotenvFile.exists
    /\ pc = "construct"
    /\ env[KEY] = Some("v1")
    /\ stdout = <<LineTrue>>

\* C10: after loading, no step writes the environment, and the value the
\* constructor is called with is the one the diagnostic reported on: None
\* when it said False, the string of the environment when it said True.
C10_ReadsAgree ==
    [][ /\ pc # "load" => env' = env
        /\ ctorCalls' # <<>> =>
             /\ Len(stdout') >= 1
             /\ stdout'[1] = LineFalse => ctorCalls'[1] = None
             /\ stdout'[1] = LineTrue =>
                  ctorCalls'[1] # None /\ ctorCalls'[1] = env'[KEY]
             /\ stdout'[1] \in {LineFalse, LineTrue}
             /\ client' # None => client'[1].api_key = ctorCalls'[1]
      ]_vars

\* the diagnostic reported a key and the client was built with that string
C10_Witness ==
    /\ stdout = <<LineTrue>>
    /\ ctorCalls = <<Some("v1")>>
    /\ client # None
    /\ client[1].api_key = Some("v1")
    /\ pc = "generate"

====
